---- MODULE Spec2Model ----
(***************************************************************************)
(* Model of bonfire's ranking engine (src/bonfire/db.py):                  *)
(*   - the raw-tweet work queue (enqueue_tweet, next_unprocessed_tweet),   *)
(*   - the trending-links aggregation (get_items, score_link),             *)
(*   - breakout detection and the top-content ledger (get_top_link,        *)
(*     add_to_top_links, get_score_stats, add_to_results_cache),           *)
(*   - the search-result merge (search_items).                             *)
(* The Elasticsearch client (bonfire/elastic.py) is not part of the        *)
(* sources; its operations are modelled from the store contract of the     *)
(* design document, section 6, and carry the prefix Es.                    *)
(***************************************************************************)
EXTENDS Integers, Sequences, FiniteSets, TLC

VARIABLES
    \* -- the raw-tweet queue of one universe ------------------------------
    rawtweet,    \* doc type 'rawtweet': id -> [present, version]
    pc,          \* per worker: position inside next_unprocessed_tweet
    not_ids,     \* per worker: the not_ids list of the running call
    result,      \* per worker: the hit of the last search, [id, version]
    returned,    \* per worker: what the call returned, a hit or None
    retries,     \* per worker: recursive calls made by the running call
    startCount,  \* per worker: raw tweets present when the call started
    fresh,       \* per worker: a new raw tweet appeared during the call
    retCount,    \* per raw id: calls that returned it since its last enqueue
    \* -- one call of search_items ------------------------------------------
    raw_results,       \* the documents the search returned, in relevance order
    res,               \* the list search_items iterates over and pops from
    index,             \* the loop index of enumerate(res), 0-based
    formatted_results, \* the records emitted so far
    mpc,               \* "loop" while iterating, "done" after the return
    \* -- the stores behind get_items and get_top_link ----------------------
    tweet_index, \* per universe: the processed tweets (doc type 'tweet')
    old,         \* per universe and url: further tweets from long ago
    content_index, \* per universe: the urls that have a content document
    user_index,  \* per universe: user id -> weight, NoWeight when unknown
    top_content, \* index bonfire_top_content: a set of [id, url] documents
    results_cache, \* index bonfire_results_cache: a sequence of documents
    \* -- the callers of get_items, get_top_link, add_to_top_links ----------
    cpc,         \* per caller: "idle", "items" (holds results), "top"
    call,        \* per caller: the arguments and outcome of the last call
    \* -- one call of score_link --------------------------------------------
    sc_args,     \* the arguments: link, user_weights, time_decay, hours
    sc_result,   \* what the call returned or raised
    sc_pc        \* "call" before the call, "done" after it, "idle" when unused

qvars == <<rawtweet, pc, not_ids, result, returned, retries, startCount,
           fresh, retCount>>

mvars == <<raw_results, res, index, formatted_results, mpc>>

svars == <<tweet_index, old, content_index, user_index>>

ivars == <<svars, top_content, results_cache, cpc, call>>

scvars == <<sc_args, sc_result, sc_pc>>

vars == <<qvars, mvars, ivars, scvars>>

-----------------------------------------------------------------------------
(* Generic helpers *)

None == [id |-> 0, version |-> 0]

Range(s) == {s[i] : i \in 1..Len(s)}

\* Front(s): s without its last element.
Front(s) == SubSeq(s, 1, Len(s) - 1)

Last(s) == s[Len(s)]

\* sorted(s, key, reverse=True): a stable sort by descending key, where key
\* is a function on the elements of s.
InsertDesc(sorted, x, key) ==
    LET n == Cardinality({i \in 1..Len(sorted) : key[sorted[i]] >= key[x]})
    IN SubSeq(sorted, 1, n) \o <<x>> \o SubSeq(sorted, n + 1, Len(sorted))

RECURSIVE SortDesc(_, _)
SortDesc(s, key) ==
    IF s = <<>> THEN <<>>
    ELSE InsertDesc(SortDesc(Front(s), key), Last(s), key)

\* s[:n]
Truncate(s, n) == SubSeq(s, 1, IF Len(s) < n THEN Len(s) ELSE n)

-----------------------------------------------------------------------------
(* The universes and what their indices hold *)

Universes == {"u1", "u2"}
Urls == {"A", "B"}
AllUrls == <<"A", "B">>
Users == {1, 2}
AllUsers == <<1, 2>>
Callers == {"c1", "c2"}
NoUrl == "-"
NoWeight == -1

NoLink ==
    [url |-> NoUrl, rank |-> 0, score |-> 0, score_explanation |-> <<>>,
     first_tweeted |-> 0, tweets |-> <<>>, authors |-> 0]

NoStats == [avg_defined |-> FALSE, count |-> 0, sum |-> 0, sum_of_squares |-> 0]

NoCall ==
    [universe |-> "-", quantity |-> 0, hours |-> 0, time_decay |-> FALSE,
     seen |-> {}, top_links |-> <<>>, stats |-> NoStats, ledger |-> {},
     link |-> NoLink]

\* The stores and the callers at rest.
IIdle ==
    /\ tweet_index = [u \in Universes |-> {}]
    /\ old = [u \in Universes |-> [l \in Urls |-> 0]]
    /\ content_index = [u \in Universes |-> {}]
    /\ user_index = [u \in Universes |-> [i \in Users |-> NoWeight]]
    /\ top_content = {}
    /\ results_cache = <<>>
    /\ cpc = [c \in Callers |-> "idle"]
    /\ call = [c \in Callers |-> NoCall]

NoArgs ==
    [link |-> [tweeters |-> <<>>, first_tweets |-> <<>>],
     user_weights |-> <<>>, time_decay |-> FALSE, hours |-> 0]

NoResult == [raised |-> "", score |-> 0, score_explanation |-> <<>>]

\* No call of score_link under study.
SIdle ==
    /\ sc_args = NoArgs
    /\ sc_result = NoResult
    /\ sc_pc = "idle"

-----------------------------------------------------------------------------
(* The raw-tweet queue: enqueue_tweet and next_unprocessed_tweet *)

MaxVersion == 3
MaxRetries == 3

Workers == {"w1", "w2"}
RawIds == {1, 2}

\* The rawtweet documents that a search can see.
Present == {i \in RawIds : rawtweet[i].present}

\* es.index(id=..., body=...): create the document or overwrite it; either
\* way the document's version goes up by one.
EsIndexRaw(idx, id) ==
    [idx EXCEPT ![id] = [present |-> TRUE, version |-> idx[id].version + 1]]

\* es.search without the must_not clause: not_ids is ignored.
EsSearchRawAll(idx, excluded) ==
    {[id |-> i, version |-> idx[i].version] :
        i \in {j \in RawIds : idx[j].present}}

\* es.search(size=1, version=True, body=must_not ids): the hits that the
\* search may return, each with the document's current version.
EsSearchRaw(idx, excluded) ==
    {[id |-> i, version |-> idx[i].version] :
        i \in {j \in RawIds : idx[j].present /\ j \notin excluded}}

\* es.delete(id=..., version=...): the outcome of the version-checked delete.
EsDeleteOutcome(idx, hit) ==
    IF ~idx[hit.id].present THEN "NotFoundError"
    ELSE IF idx[hit.id].version # hit.version THEN "ConflictError"
    ELSE "deleted"

EsDeleteRaw(idx, hit) ==
    IF EsDeleteOutcome(idx, hit) = "deleted"
    THEN [idx EXCEPT ![hit.id].present = FALSE]
    ELSE idx

QInit ==
    /\ rawtweet = [i \in RawIds |-> [present |-> FALSE, version |-> 0]]
    /\ pc = [w \in Workers |-> "idle"]
    /\ not_ids = [w \in Workers |-> <<>>]
    /\ result = [w \in Workers |-> None]
    /\ returned = [w \in Workers |-> None]
    /\ retries = [w \in Workers |-> 0]
    /\ startCount = [w \in Workers |-> 0]
    /\ fresh = [w \in Workers |-> FALSE]
    /\ retCount = [i \in RawIds |-> 0]

\* enqueue_tweet(universe, tweet): index the tweet under its own id.
enqueue_tweet(id) ==
    /\ rawtweet[id].version < MaxVersion
    /\ rawtweet' = EsIndexRaw(rawtweet, id)
    /\ retCount' = [retCount EXCEPT ![id] = 0]
    /\ fresh' = [w \in Workers |->
                    fresh[w] \/ (pc[w] \in {"search", "delete"}
                                 /\ ~rawtweet[id].present)]
    /\ UNCHANGED <<pc, not_ids, result, returned, retries, startCount>>
    /\ UNCHANGED <<mvars, ivars, scvars>>

\* A worker calls next_unprocessed_tweet(universe): not_ids is None, which
\* searches like an empty exclusion list.
CallDequeue(w) ==
    /\ pc[w] = "idle"
    /\ pc' = [pc EXCEPT ![w] = "search"]
    /\ startCount' = [startCount EXCEPT ![w] = Cardinality(Present)]
    /\ UNCHANGED <<rawtweet, not_ids, result, returned, retries, fresh,
                   retCount>>
    /\ UNCHANGED <<mvars, ivars, scvars>>

\* The search of next_unprocessed_tweet: StopIteration returns None,
\* otherwise the hit is kept for the delete.
SearchRaw(w) ==
    /\ pc[w] = "search"
    /\ LET hits == EsSearchRaw(rawtweet, Range(not_ids[w])) IN
        IF hits = {}
        THEN /\ pc' = [pc EXCEPT ![w] = "done"]
             /\ returned' = [returned EXCEPT ![w] = None]
             /\ UNCHANGED result
        ELSE /\ \E h \in hits : result' = [result EXCEPT ![w] = h]
             /\ pc' = [pc EXCEPT ![w] = "delete"]
             /\ UNCHANGED returned
    /\ UNCHANGED <<rawtweet, not_ids, retries, startCount, fresh, retCount>>
    /\ UNCHANGED <<mvars, ivars, scvars>>

\* What next_unprocessed_tweet does with the outcome of the delete: the
\* next position, the exclusion list passed on and the value returned.
\* AfterDelete with NotFoundError taken for a successful delete.
AfterDeleteLost(outcome, ids, hit) ==
    IF outcome = "ConflictError"
    THEN [pc |-> "search", not_ids |-> Append(ids, hit.id), returned |-> None]
    ELSE [pc |-> "done", not_ids |-> ids, returned |-> hit]

\* AfterDelete with the hit returned after a ConflictError.
AfterDeleteConflictReturns(outcome, ids, hit) ==
    IF outcome = "NotFoundError"
    THEN [pc |-> "search", not_ids |-> ids, returned |-> None]
    ELSE [pc |-> "done", not_ids |-> ids, returned |-> hit]

\* AfterDelete with the id put into not_ids after a NotFoundError too.
AfterDeleteNotFoundExcludes(outcome, ids, hit) ==
    IF outcome = "deleted"
    THEN [pc |-> "done", not_ids |-> ids, returned |-> hit]
    ELSE [pc |-> "search", not_ids |-> Append(ids, hit.id), returned |-> None]

\* AfterDelete with the id left out of not_ids after a ConflictError.
AfterDeleteNoExclude(outcome, ids, hit) ==
    IF outcome = "deleted"
    THEN [pc |-> "done", not_ids |-> ids, returned |-> hit]
    ELSE [pc |-> "search", not_ids |-> ids, returned |-> None]

\* Lines 403-422.
AfterDelete(outcome, ids, hit) ==
    IF outcome = "NotFoundError"
    THEN [pc |-> "search", not_ids |-> ids, returned |-> None]
    ELSE IF outcome = "ConflictError"
    THEN [pc |-> "search", not_ids |-> Append(ids, hit.id), returned |-> None]
    ELSE [pc |-> "done", not_ids |-> ids, returned |-> hit]

\* The version-checked delete of next_unprocessed_tweet and its handlers.
DeleteRaw(w) ==
    /\ pc[w] = "delete"
    /\ LET outcome == EsDeleteOutcome(rawtweet, result[w])
           after == AfterDelete(outcome, not_ids[w], result[w])
       IN
        /\ after.pc = "search" => retries[w] < MaxRetries
        /\ rawtweet' = EsDeleteRaw(rawtweet, result[w])
        /\ pc' = [pc EXCEPT ![w] = after.pc]
        /\ not_ids' = [not_ids EXCEPT ![w] = after.not_ids]
        /\ returned' = [returned EXCEPT ![w] = after.returned]
        /\ retries' = [retries EXCEPT ![w] =
                          IF after.pc = "search" THEN @ + 1 ELSE @]
        /\ retCount' = IF after.returned # None
                       THEN [retCount EXCEPT ![after.returned.id] = @ + 1]
                       ELSE retCount
    /\ UNCHANGED <<result, startCount, fresh>>
    /\ UNCHANGED <<mvars, ivars, scvars>>

\* The caller takes the returned value; the worker may call again.
ReturnDequeue(w) ==
    /\ pc[w] = "done"
    /\ pc' = [pc EXCEPT ![w] = "idle"]
    /\ not_ids' = [not_ids EXCEPT ![w] = <<>>]
    /\ result' = [result EXCEPT ![w] = None]
    /\ returned' = [returned EXCEPT ![w] = None]
    /\ retries' = [retries EXCEPT ![w] = 0]
    /\ startCount' = [startCount EXCEPT ![w] = 0]
    /\ fresh' = [fresh EXCEPT ![w] = FALSE]
    /\ UNCHANGED <<rawtweet, retCount>>
    /\ UNCHANGED <<mvars, ivars, scvars>>

\* The other components at rest.
MIdle ==
    /\ raw_results = <<>>
    /\ res = <<>>
    /\ index = 0
    /\ formatted_results = <<>>
    /\ mpc = "done"

QueueNext ==
    \/ \E i \in RawIds : enqueue_tweet(i)
    \/ \E w \in Workers : CallDequeue(w)
    \/ \E w \in Workers : SearchRaw(w)
    \/ \E w \in Workers : DeleteRaw(w)
    \/ \E w \in Workers : ReturnDequeue(w)

QueueInit == QInit /\ MIdle /\ IIdle /\ SIdle

SpecQueue == QueueInit /\ [][QueueNext]_vars

-----------------------------------------------------------------------------
(* Claims about the queue *)

\* C1: a raw post that was enqueued once is returned by at most one dequeue
\* call, whatever the interleaving of the workers' searches and deletes.
C1_AtMostOneDequeue ==
    \A i \in RawIds : rawtweet[i].version = 1 => retCount[i] <= 1

\* C1 witness: two workers searched the same once-enqueued post, one of them
\* has returned it and the other one still holds the stale hit.
C1_Witness ==
    \E w1, w2 \in Workers :
        /\ w1 # w2
        /\ pc[w1] = "done" /\ returned[w1] # None
        /\ rawtweet[returned[w1].id].version = 1
        /\ pc[w2] = "search" /\ retries[w2] = 1
        /\ result[w2] = returned[w1]

\* C2: a conflicting id is excluded from every later search of the same call,
\* and a call during which no new raw post appeared retries at most as often
\* as there were raw posts when it started.
C2_BoundedRetries ==
    \A w \in Workers :
        /\ pc[w] = "delete" => result[w].id \notin Range(not_ids[w])
        /\ Len(not_ids[w]) <= retries[w]
        /\ (pc[w] # "idle" /\ ~fresh[w]) => retries[w] <= startCount[w]

\* C2 witness: a finished call that met a version conflict on every raw post
\* present at its start and excluded each of them.
C2_Witness ==
    \E w \in Workers :
        /\ pc[w] = "done" /\ ~fresh[w]
        /\ startCount[w] = Cardinality(RawIds)
        /\ retries[w] = startCount[w]
        /\ Range(not_ids[w]) = RawIds

\* A retry ceiling for the model to test: any number of retries below the
\* number the model lets one call make.
RetryCeiling == MaxRetries - 1

\* C3: one dequeue call never makes more than a fixed number of retries.
C3_HardRetryCeiling ==
    \A w \in Workers : retries[w] <= RetryCeiling

\* C18: a step of next_unprocessed_tweet changes the rawtweet documents only
\* by removing the post it returns. A search that finds no post outside
\* not_ids returns None and changes nothing; a call that returns a post has
\* removed exactly that post; every other step leaves all posts as they are.
C18_DequeueFrame ==
    [][\A w \in Workers : pc'[w] # pc[w] =>
          /\ (pc[w] = "search"
                 /\ EsSearchRaw(rawtweet, Range(not_ids[w])) = {})
             => (pc'[w] = "done" /\ returned'[w] = None)
          /\ IF pc'[w] = "done" /\ returned'[w] # None
             THEN /\ rawtweet[returned'[w].id].present
                  /\ rawtweet[returned'[w].id].version = returned'[w].version
                  /\ rawtweet' =
                         [rawtweet EXCEPT ![returned'[w].id].present = FALSE]
             ELSE rawtweet' = rawtweet]_vars

\* C18 witness: a call has returned a post, that post is gone and the other
\* raw post is still there.
C18_Witness ==
    \E w \in Workers :
        /\ pc[w] = "done" /\ returned[w] # None
        /\ ~rawtweet[returned[w].id].present
        /\ \E i \in RawIds \ {returned[w].id} : rawtweet[i].present

-----------------------------------------------------------------------------
(* The queue under fair scheduling *)

\* The posts enqueued so far, re-enqueued ones counted again.
RECURSIVE Enqueued(_)
Enqueued(ids) ==
    IF ids = {} THEN 0
    ELSE LET i == CHOOSE j \in ids : TRUE
         IN rawtweet[i].version + Enqueued(ids \ {i})

\* The producers enqueue finitely many posts: fewer than the retries the
\* model follows one call for, so that every call is followed to its return.
MaxEnqueues == MaxRetries - 1

LiveEnqueue(id) ==
    /\ Enqueued(RawIds) < MaxEnqueues
    /\ enqueue_tweet(id)

LiveNext ==
    \/ \E i \in RawIds : LiveEnqueue(i)
    \/ \E w \in Workers : CallDequeue(w)
    \/ \E w \in Workers : SearchRaw(w)
    \/ \E w \in Workers : DeleteRaw(w)
    \/ \E w \in Workers : ReturnDequeue(w)

\* A running call of next_unprocessed_tweet goes on to its next statement.
LiveFairness ==
    \A w \in Workers : WF_vars(SearchRaw(w)) /\ WF_vars(DeleteRaw(w))

SpecQueueLive == QueueInit /\ [][LiveNext]_vars /\ LiveFairness

\* The hits a search can return.
Hits == [id : RawIds, version : 1..MaxVersion]

\* The call of worker w is about to search again after a NotFoundError for
\* hit h: h is the hit of the last search and was not excluded.
RetryAfterNotFound(w, h) ==
    /\ pc[w] = "search"
    /\ result[w] = h
    /\ h.id \notin Range(not_ids[w])

PollFairness ==
    \A w \in Workers : WF_vars(CallDequeue(w)) /\ WF_vars(ReturnDequeue(w))

SpecQueuePoll ==
    QueueInit /\ [][LiveNext]_vars /\ LiveFairness /\ PollFairness

\* The call of worker w has returned None although post i, which it skipped
\* after a ConflictError, is still in the queue.
NoneWhilePresent(w, i) ==
    /\ pc[w] = "done" /\ returned[w] = None
    /\ i \in Range(not_ids[w])
    /\ rawtweet[i].present

-----------------------------------------------------------------------------
(* search_items: merging the hits of a combined content/tweet search *)

MaxDocs == 3
MClock == 3

CONTENT_DOCUMENT_TYPE == "content"
TWEET_DOCUMENT_TYPE == "tweet"

TweetIds == {1, 2, 3}
Created == {1, 2}
NoTime == -1

\* The documents of the universe index that a search can return. A content
\* document is stored under its url, a tweet under its id.
ContentDocs ==
    {[_type |-> CONTENT_DOCUMENT_TYPE, id |-> 0, url |-> u,
      content_url |-> NoUrl, created |-> 0] : u \in Urls}

TweetDocs ==
    {[_type |-> TWEET_DOCUMENT_TYPE, id |-> i, url |-> NoUrl,
      content_url |-> u, created |-> c] :
        i \in TweetIds, u \in Urls, c \in Created}

\* The key a document is stored under: hits of one search have distinct keys.
DocKey(d) == IF d._type = CONTENT_DOCUMENT_TYPE THEN <<d._type, d.url>>
             ELSE <<d._type, d.id>>

SearchHits ==
    {s \in UNION {[1..n -> ContentDocs \cup TweetDocs] : n \in 0..MaxDocs} :
        \A i, j \in 1..Len(s) : i # j => DocKey(s[i]) # DocKey(s[j])}

\* dates.get_since_now(created): the time elapsed since created.
get_since_now(created) == MClock - created

\* list.index(x): the position of the first element equal to x.
ListIndex(s, x) ==
    CHOOSE i \in 1..Len(s) : s[i] = x /\ \A k \in 1..(i - 1) : s[k] # x

\* list.pop(i) for a 1-based position i: the list without that element.
ListPop(s, i) == SubSeq(s, 1, i - 1) \o SubSeq(s, i + 1, Len(s))

\* res[index+1:] for the 0-based index of the loop.
Rest(s, idx) == SubSeq(s, idx + 2, Len(s))

\* Lines 525-527: the tweets after the content document that link to it.
matching_tweets(s, idx, doc) ==
    SelectSeq(Rest(s, idx),
              LAMBDA r : r.content_url # NoUrl /\ r.content_url = doc.url)

\* Lines 534-536: the documents after the tweet that have its content's url.
matching_content(s, idx, doc) ==
    SelectSeq(Rest(s, idx),
              LAMBDA r : r.url # NoUrl /\ r.url = doc.content_url)

\* Lines 529-531: pop every matching tweet out of res.
RECURSIVE PopAll(_, _)
PopAll(s, tweets) ==
    IF tweets = <<>> THEN s
    ELSE PopAll(ListPop(s, ListIndex(s, Head(tweets))), Tail(tweets))

\* Lines 548-551 with the 0-based index of the loop as the rank.
RankedZeroBased(rec, idx) ==
    [rec EXCEPT !.rank = idx,
                !.first_tweeted = IF rec.tweets # <<>>
                                  THEN get_since_now(rec.tweets[1].created)
                                  ELSE NoTime]

\* Lines 548-551: the rank and the time of the first nested tweet.
Ranked(rec, idx) ==
    [rec EXCEPT !.rank = idx + 1,
                !.first_tweeted = IF rec.tweets # <<>>
                                  THEN get_since_now(rec.tweets[1].created)
                                  ELSE NoTime]

\* A content hit as an emitted record; the hit itself carries no 'type' key.
ContentRecord(doc, type, tweets) ==
    [_type |-> doc._type, type |-> type, url |-> doc.url, tweets |-> tweets,
     rank |-> 0, first_tweeted |-> NoTime]

\* Lines 524-531 without the pop: the tweets stay in res.
ContentBranchNoPop(s, idx) ==
    LET doc == s[idx + 1]
        tweets == matching_tweets(s, idx, doc)
    IN [res |-> s, record |-> ContentRecord(doc, NoUrl, tweets)]

\* Lines 524-531: a content hit takes the later tweets that link to it.
ContentBranch(s, idx) ==
    LET doc == s[idx + 1]
        tweets == matching_tweets(s, idx, doc)
    IN [res |-> PopAll(s, tweets),
        record |-> ContentRecord(doc, NoUrl, tweets)]

\* Lines 532-547 without the pop of line 545: the content stays in res.
TweetBranchNoPop(s, idx) ==
    LET tweet == s[idx + 1]
        found == matching_content(s, idx, tweet)
    IN IF found = <<>>
       THEN [res |-> s,
             record |-> [_type |-> NoUrl, type |-> "tweet",
                         url |-> tweet.content_url, tweets |-> <<tweet>>,
                         rank |-> 0, first_tweeted |-> NoTime]]
       ELSE [res |-> s,
             record |-> ContentRecord(found[1], "content", <<tweet>>)]

\* Lines 532-547 without the look-ahead: every tweet hit becomes a record of
\* type 'tweet'.
TweetBranchNoFold(s, idx) ==
    LET tweet == s[idx + 1]
    IN [res |-> s,
        record |-> [_type |-> NoUrl, type |-> "tweet",
                    url |-> tweet.content_url, tweets |-> <<tweet>>,
                    rank |-> 0, first_tweeted |-> NoTime]]

\* Lines 532-547: a tweet hit takes the first later content it links to, or
\* becomes a record of type 'tweet' on its own.
TweetBranch(s, idx) ==
    LET tweet == s[idx + 1]
        found == matching_content(s, idx, tweet)
    IN IF found = <<>>
       THEN [res |-> s,
             record |-> [_type |-> NoUrl, type |-> "tweet",
                         url |-> tweet.content_url, tweets |-> <<tweet>>,
                         rank |-> 0, first_tweeted |-> NoTime]]
       ELSE [res |-> ListPop(s, ListIndex(s, found[1])),
             record |-> ContentRecord(found[1], "content", <<tweet>>)]

\* One iteration of the loop of search_items, lines 521-552.
LoopBody(s, idx) ==
    IF s[idx + 1]._type = CONTENT_DOCUMENT_TYPE
    THEN ContentBranch(s, idx)
    ELSE TweetBranch(s, idx)

MInit ==
    /\ raw_results \in SearchHits
    /\ res = raw_results
    /\ index = 0
    /\ formatted_results = <<>>
    /\ mpc = "loop"

MergeStep ==
    /\ mpc = "loop"
    /\ index < Len(res)
    /\ LET body == LoopBody(res, index) IN
        /\ res' = body.res
        /\ formatted_results' =
               Append(formatted_results, Ranked(body.record, index))
    /\ index' = index + 1
    /\ UNCHANGED <<raw_results, mpc>>
    /\ UNCHANGED <<qvars, ivars, scvars>>

\* The iteration is over: search_items returns formatted_results.
MergeReturn ==
    /\ mpc = "loop"
    /\ index >= Len(res)
    /\ mpc' = "done"
    /\ UNCHANGED <<raw_results, res, index, formatted_results>>
    /\ UNCHANGED <<qvars, ivars, scvars>>

QIdle == QInit

MergeInit == MInit /\ QIdle /\ IIdle /\ SIdle

MergeNext == MergeStep \/ MergeReturn

SpecMerge == MergeInit /\ [][MergeNext]_vars

-----------------------------------------------------------------------------
(* Claims about search_items *)

IsContent(d) == d._type = CONTENT_DOCUMENT_TYPE
IsTweet(d) == d._type = TWEET_DOCUMENT_TYPE

\* The content hit at position i is reached by the loop: no earlier tweet
\* linking to it has taken it.
ContentVisited(in, i) ==
    /\ IsContent(in[i])
    /\ \A k \in 1..(i - 1) : ~(IsTweet(in[k]) /\ in[k].content_url = in[i].url)

\* The tweets after position i that link to the content at position i.
LaterTweets(in, i) ==
    SelectSeq(SubSeq(in, i + 1, Len(in)),
              LAMBDA r : IsTweet(r) /\ r.content_url = in[i].url)

\* The tweet at position j is reached by the loop: no earlier content hit
\* that the loop reached has nested it.
TweetVisited(in, j) ==
    /\ IsTweet(in[j])
    /\ \A i \in 1..(j - 1) :
          ~(ContentVisited(in, i) /\ in[i].url = in[j].content_url)

\* The emitted records that carry tweet t.
Carriers(out, t) == {r \in 1..Len(out) : t \in Range(out[r].tweets)}

ExampleHits ==
    <<[_type |-> CONTENT_DOCUMENT_TYPE, id |-> 0, url |-> "A",
       content_url |-> NoUrl, created |-> 0],
      [_type |-> TWEET_DOCUMENT_TYPE, id |-> 1, url |-> NoUrl,
       content_url |-> "A", created |-> 1],
      [_type |-> TWEET_DOCUMENT_TYPE, id |-> 2, url |-> NoUrl,
       content_url |-> "B", created |-> 1]>>

\* C10: when search_items has returned, every content hit the loop reached
\* carries exactly the later tweets that link to it and none of those tweets
\* is in another record; every tweet the loop reached that has no matching
\* content after it is a record of type 'tweet' carrying only that tweet;
\* [Content A, Tweet->A, Tweet->B] gives Content A with one tweet at rank 1
\* and a tweet-only record for B at rank 2.
C10_MergeNesting ==
    mpc = "done" =>
        LET in == raw_results
            out == formatted_results
        IN
        /\ \A i \in 1..Len(in) : ContentVisited(in, i) =>
              /\ \E r \in 1..Len(out) :
                    /\ out[r]._type = CONTENT_DOCUMENT_TYPE
                    /\ out[r].url = in[i].url
                    /\ out[r].tweets = LaterTweets(in, i)
                    /\ \A j \in 1..Len(out[r].tweets) :
                          Carriers(out, out[r].tweets[j]) = {r}
        /\ \A j \in 1..Len(in) :
              (/\ TweetVisited(in, j)
               /\ \A k \in (j + 1)..Len(in) :
                     ~(IsContent(in[k]) /\ in[k].url = in[j].content_url))
              => \E r \in 1..Len(out) :
                    /\ out[r].type = "tweet"
                    /\ out[r].url = in[j].content_url
                    /\ out[r].tweets = <<in[j]>>
        /\ in = ExampleHits =>
              /\ Len(out) = 2
              /\ out[1]._type = CONTENT_DOCUMENT_TYPE /\ out[1].url = "A"
              /\ out[1].tweets = <<in[2]>> /\ out[1].rank = 1
              /\ out[2].type = "tweet" /\ out[2].url = "B"
              /\ out[2].tweets = <<in[3]>> /\ out[2].rank = 2

\* C10 witness: the example input has been merged.
C10_Witness ==
    /\ mpc = "done"
    /\ raw_results = ExampleHits
    /\ Len(formatted_results) = 2

\* C11: at every point of the loop, and so when search_items returns, the
\* record at position r of the output has rank r: the ranks are 1..N, also
\* when an earlier record has taken later documents out of the list.
C11_RankIsPosition ==
    \A r \in 1..Len(formatted_results) : formatted_results[r].rank = r

\* C11 witness: a returned list in which a record took a later document out
\* of res and a record behind it was still emitted.
C11_Witness ==
    /\ mpc = "done"
    /\ Len(raw_results) = 3
    /\ Len(formatted_results) = 2
    /\ Len(formatted_results[1].tweets) = 1
    /\ IsContent(raw_results[1]) /\ IsTweet(raw_results[2])
    /\ formatted_results[2].rank = 2

\* The places where document d appears in the output: as the content
\* document of a record (position 0 of the record) or as its k-th tweet.
Appearances(out, d) ==
    {<<r, 0>> : r \in {q \in 1..Len(out) :
                          /\ IsContent(d)
                          /\ out[q]._type = CONTENT_DOCUMENT_TYPE
                          /\ out[q].url = d.url}}
    \cup {<<r, k>> \in (1..Len(out)) \X (1..MaxDocs) :
              k <= Len(out[r].tweets) /\ out[r].tweets[k] = d}

\* The number of documents a record holds: its content document, if it has
\* one, and its tweets.
RecordSize(rec) ==
    Len(rec.tweets) + (IF rec._type = CONTENT_DOCUMENT_TYPE THEN 1 ELSE 0)

RECURSIVE TotalSize(_)
TotalSize(out) ==
    IF out = <<>> THEN 0 ELSE RecordSize(Head(out)) + TotalSize(Tail(out))

\* C12: when search_items has returned, every input document appears in the
\* output exactly once, as the content document of a record or as one of the
\* tweets of one record, and the output holds nothing else.
C12_EachDocumentOnce ==
    mpc = "done" =>
        /\ \A i \in 1..Len(raw_results) :
              Cardinality(Appearances(formatted_results, raw_results[i])) = 1
        /\ TotalSize(formatted_results) = Len(raw_results)

\* C12 witness: a tweet came before its content and another tweet of the same
\* content came after it; all three documents are in the output.
C12_Witness ==
    /\ mpc = "done"
    /\ Len(raw_results) = 3
    /\ IsTweet(raw_results[1]) /\ IsContent(raw_results[2])
    /\ IsTweet(raw_results[3])
    /\ raw_results[1].content_url = raw_results[2].url
    /\ raw_results[3].content_url = raw_results[2].url
    /\ Len(formatted_results) = 2

\* The creation time of the earliest tweet of a record.
EarliestCreated(tweets) ==
    CHOOSE c \in {tweets[k].created : k \in 1..Len(tweets)} :
        \A k \in 1..Len(tweets) : c <= tweets[k].created

\* C13: the first_tweeted of every emitted record that carries tweets is the
\* time since the earliest of them was created.
C13_FirstSharedEarliest ==
    \A r \in 1..Len(formatted_results) :
        formatted_results[r].tweets # <<>> =>
            formatted_results[r].first_tweeted =
                get_since_now(EarliestCreated(formatted_results[r].tweets))

\* The document at position i is reached by the loop.
Visited(in, i) == ContentVisited(in, i) \/ TweetVisited(in, i)

\* The position in the output of the record made at input position i.
OutputPosition(in, i) == Cardinality({k \in 1..i : Visited(in, k)})

\* The tweet at position j is reached by the loop while its content is
\* still in the list behind it: the content comes later in the input and no
\* earlier tweet has taken it.
TweetBeforeContent(in, j) ==
    /\ TweetVisited(in, j)
    /\ \E k \in (j + 1)..Len(in) :
          IsContent(in[k]) /\ in[k].url = in[j].content_url
    /\ \A k \in 1..(j - 1) :
          ~(IsTweet(in[k]) /\ in[k].content_url = in[j].content_url)

\* C20: when search_items has returned, a tweet that the loop reached before
\* its content gave one record of type 'content' at the tweet's position
\* that carries only that tweet; the content is in no other record; every
\* later tweet of the same content is a record of type 'tweet' of its own.
C20_PostBeforeContent ==
    mpc = "done" =>
        LET in == raw_results
            out == formatted_results
        IN \A j \in 1..Len(in) : TweetBeforeContent(in, j) =>
              LET r == OutputPosition(in, j) IN
              /\ r <= Len(out)
              /\ out[r].type = "content"
              /\ out[r]._type = CONTENT_DOCUMENT_TYPE
              /\ out[r].url = in[j].content_url
              /\ out[r].tweets = <<in[j]>>
              /\ \A q \in 1..Len(out) :
                    (out[q]._type = CONTENT_DOCUMENT_TYPE
                     /\ out[q].url = in[j].content_url) => q = r
              /\ \A k \in (j + 1)..Len(in) :
                    (IsTweet(in[k]) /\ in[k].content_url = in[j].content_url)
                    => LET q == OutputPosition(in, k) IN
                       /\ q <= Len(out) /\ q # r
                       /\ out[q].type = "tweet"
                       /\ out[q].url = in[j].content_url
                       /\ out[q].tweets = <<in[k]>>

\* C20 witness: tweet, content, tweet of one url gave a content record with
\* the first tweet and a tweet record with the same url.
C20_Witness ==
    /\ mpc = "done"
    /\ Len(raw_results) = 3
    /\ TweetBeforeContent(raw_results, 1)
    /\ IsTweet(raw_results[3])
    /\ raw_results[3].content_url = raw_results[1].content_url
    /\ Len(formatted_results) = 2
    /\ formatted_results[1].type = "content"
    /\ formatted_results[2].type = "tweet"
    /\ formatted_results[1].url = formatted_results[2].url

-----------------------------------------------------------------------------
(* get_items and score_link: the trending links of a universe *)

MaxTweets == 4

MIN_DOC_COUNT == 2
TOP_HITS_SIZE == 3
OUTSIDE_SIZE == 1000
MinutesPerHour == 60

\* Times are minutes. The clock stands at Now; tweets are created at one of
\* TweetTimes; the tweets counted by old[u] are older than every window.
Now == 2 * MinutesPerHour
TweetTimes == {60, 90}
LongAgo == 0 - 10 * MinutesPerHour
OldCounts == {0, 1, OUTSIDE_SIZE}
Weights == {1, 10}
Hours == {1, 2}
Quantities == {1, 2}

TweetShapes ==
    [user_id : Users, content_url : Urls, created : TweetTimes]

\* dates.get_query_dates(None, None, hours): the last `hours` hours.
get_query_dates(hours) ==
    [start |-> Now - hours * MinutesPerHour, end |-> Now]

\* dates.get_since_now(t, time_type='minute', stringify=False)[0]
minutes_since_now(t) == Now - t

\* Line 577: math.log(weight*10 + 1) in units of 1/160, rounded to a
\* multiple of 16 so that the decay factors 1/2 and 3/4 stay exact.
convert_weight_to_score(weight) ==
    CASE weight = 0 -> 0
      [] weight = 1 -> 384
      [] weight = 10 -> 736

\* A set as a sequence, in the order the store happens to hold it.
RECURSIVE SetToSeq(_)
SetToSeq(S) ==
    IF S = {} THEN <<>>
    ELSE LET x == CHOOSE y \in S : TRUE IN <<x>> \o SetToSeq(S \ {x})

\* The filter aggregation 'recent_tweets', lines 629-637.
recent_tweets(u, start, end) ==
    {t \in tweet_index[u] : t.created >= start /\ t.created <= end}

\* The sub-aggregation 'tweeters', lines 654-659: the user ids of a bucket,
\* most frequent first.
tweeters(docs) ==
    LET ids == SelectSeq(AllUsers, LAMBDA i : \E t \in docs : t.user_id = i)
        count == [i \in Users |-> Cardinality({t \in docs : t.user_id = i})]
    IN SortDesc(ids, count)

\* The sub-aggregation 'first_tweets', lines 660-669: the first three tweets
\* of a bucket by creation time.
first_tweets(docs) ==
    Truncate(SortDesc(SetToSeq(docs), [t \in docs |-> 0 - t.created]),
             TOP_HITS_SIZE)

\* Line 651 with a min_doc_count of 1.
EnoughDocsAny(docs) == Cardinality(docs) >= 1

\* Line 651: min_doc_count, a count of the bucket's documents.
EnoughDocs(docs) == Cardinality(docs) >= MIN_DOC_COUNT

\* The terms aggregation on content_url, lines 639-671: one bucket for each
\* url with enough documents, largest first, at most search_limit of them.
content_buckets(u, start, end, search_limit) ==
    LET recent == recent_tweets(u, start, end)
        docs == [l \in Urls |-> {t \in recent : t.content_url = l}]
        keys == SelectSeq(AllUrls, LAMBDA l : EnoughDocs(docs[l]))
        count == [l \in Urls |-> Cardinality(docs[l])]
        kept == Truncate(SortDesc(keys, count), search_limit)
    IN [i \in 1..Len(kept) |->
           [key |-> kept[i],
            tweeters |-> tweeters(docs[kept[i]]),
            first_tweets |-> first_tweets(docs[kept[i]])]]

\* Lines 684-700: the number of rows of the second search for one url, the
\* tweets of that url created at or before start.
outside_rows(u, l, start) ==
    Cardinality({t \in tweet_index[u] :
                    t.content_url = l /\ t.created <= start})
    + (IF LongAgo <= start THEN old[u][l] ELSE 0)

RECURSIVE SumOver(_, _)
SumOver(S, f) ==
    IF S = {} THEN 0
    ELSE LET x == CHOOSE y \in S : TRUE IN f[x] + SumOver(S \ {x}, f)

\* The second search without a limit on its size.
outside_of_range_unlimited(u, keys, start) ==
    {{l \in keys : outside_rows(u, l, start) > 0}}

\* Lines 699-701: the sets of urls that the size=1000 rows of the second
\* search can hold. When more rows match than fit, the store returns any
\* 1000 of them.
outside_of_range(u, keys, start) ==
    LET rows == [l \in keys |-> outside_rows(u, l, start)]
        hit == {l \in keys : rows[l] > 0}
    IN IF SumOver(hit, rows) <= OUTSIDE_SIZE
       THEN {hit}
       ELSE {S \in SUBSET hit :
                /\ S # {}
                /\ Cardinality(S) <= OUTSIDE_SIZE
                /\ SumOver(S, rows) >= OUTSIDE_SIZE}

\* get_user_weights, lines 556-563: the weights of the users that exist.
get_user_weights(u, user_ids) ==
    [i \in {j \in user_ids : user_index[u][j] # NoWeight} |-> user_index[u][i]]

\* user_weights.get(key, 0.0)
WeightOf(user_weights, key) ==
    IF key \in DOMAIN user_weights THEN user_weights[key] ELSE 0

\* Lines 579-586: the running score and one explanation per tweeter.
RECURSIVE Influence(_, _)
Influence(ids, user_weights) ==
    IF ids = <<>> THEN [score |-> 0, score_explanation |-> <<>>]
    ELSE LET before == Influence(Front(ids), user_weights)
             gain == convert_weight_to_score(WeightOf(user_weights, Last(ids)))
         IN [score |-> before.score + gain,
             score_explanation |->
                 Append(before.score_explanation,
                        [kind |-> "citizen", key |-> Last(ids),
                         score |-> before.score + gain])]

\* Lines 599-600 with the decay applied once only.
DecayOnce(score, hours_since, hours) ==
    IF hours_since <= 0 THEN score
    ELSE (score * (hours - 1)) \div hours

\* Lines 599-600: score *= DECAY_FACTOR, once for each hour.
RECURSIVE Decay(_, _, _)
Decay(score, hours_since, hours) ==
    IF hours_since <= 0 THEN score
    ELSE Decay((score * (hours - 1)) \div hours, hours_since - 1, hours)

\* score_link, lines 566-606.
score_link(link, user_weights, time_decay, hours) ==
    LET base == Influence(link.tweeters, user_weights) IN
    IF ~time_decay THEN base
    ELSE LET first_tweeted == link.first_tweets[1].created
             minutes_since == minutes_since_now(first_tweeted)
             hours_since == minutes_since \div MinutesPerHour
             score == Decay(base.score, hours_since, hours)
         IN [score |-> score,
             score_explanation |->
                 Append(base.score_explanation,
                        [kind |-> "decay", key |-> hours_since,
                         score |-> score])]

\* Lines 714-715 without the sort.
sorted_links_unsorted(links, quantity) == Truncate(links, quantity)

\* Lines 714-715: the links by descending score, the first `quantity`.
sorted_links(links, quantity) ==
    Truncate(SortDesc(links, [l \in Range(links) |-> l.score]), quantity)

\* Lines 725-727 with the rank taken from the position before the filter.
RankedLinksByRequest(urls, u) ==
    LET found == SelectSeq([i \in 1..Len(urls) |-> <<urls[i], i>>],
                           LAMBDA p : p[1] \in content_index[u])
    IN [i \in 1..Len(found) |-> [url |-> found[i][1], rank |-> found[i][2]]]

\* Lines 719-727: the content documents that mget finds for top_urls, in the
\* order asked for, each with its rank.
RankedLinks(urls, u) ==
    LET matching_links == SelectSeq(urls, LAMBDA l : l \in content_index[u])
    IN [i \in 1..Len(matching_links) |->
           [url |-> matching_links[i], rank |-> i]]

\* Lines 623-715 of get_items, for the rows `seen` of the second search: the
\* buckets left after the exclusion, scored, sorted and truncated.
scored_links(u, quantity, hours, time_decay, seen) ==
    LET dates == get_query_dates(hours)
        search_limit == IF time_decay THEN quantity * 5 ELSE quantity * 2
        buckets == content_buckets(u, dates.start, dates.end, search_limit)
        links == SelectSeq(buckets, LAMBDA link : link.key \notin seen)
        tweeter_ids == UNION {Range(links[i].tweeters) : i \in 1..Len(links)}
        user_weights == get_user_weights(u, tweeter_ids)
        scored == [i \in 1..Len(links) |->
                      LET sc == score_link(links[i], user_weights,
                                           time_decay, hours)
                      IN [key |-> links[i].key,
                          tweeters |-> links[i].tweeters,
                          first_tweets |-> links[i].first_tweets,
                          score |-> sc.score,
                          score_explanation |-> sc.score_explanation]]
    IN sorted_links(scored, quantity)

\* get_items, lines 609-738, for the rows `seen` of the second search.
get_items(u, quantity, hours, time_decay, seen) ==
    LET top == scored_links(u, quantity, hours, time_decay, seen)
        top_urls == [i \in 1..Len(top) |-> top[i].key]
        ranked == RankedLinks(top_urls, u)
    IN [i \in 1..Len(ranked) |->
           LET link_match ==
                   SelectSeq(top, LAMBDA l : l.key = ranked[i].url)[1]
           IN [url |-> ranked[i].url,
               rank |-> ranked[i].rank,
               score |-> link_match.score,
               score_explanation |-> link_match.score_explanation,
               first_tweeted |->
                   minutes_since_now(link_match.first_tweets[1].created),
               tweets |-> link_match.first_tweets,
               authors |-> Len(link_match.tweeters)]]

\* The urls whose rows the second search of get_items may return.
SeenChoices(u, hours, quantity, time_decay) ==
    LET dates == get_query_dates(hours)
        search_limit == IF time_decay THEN quantity * 5 ELSE quantity * 2
        buckets == content_buckets(u, dates.start, dates.end, search_limit)
    IN outside_of_range(u, {buckets[i].key : i \in 1..Len(buckets)},
                        dates.start)

\* The stores of one universe: up to MaxTweets tweets, old tweets by the
\* thousand for some urls, content documents for some urls, weights for the
\* users that exist.
StoreInit(u) ==
    /\ tweet_index \in [Universes ->
           {S \in SUBSET TweetShapes : Cardinality(S) <= MaxTweets}]
    /\ \A v \in Universes \ {u} : tweet_index[v] = {}
    /\ old \in [Universes -> [Urls -> OldCounts]]
    /\ \A v \in Universes \ {u} : \A l \in Urls : old[v][l] = 0
    /\ content_index \in [Universes -> SUBSET Urls]
    /\ \A v \in Universes \ {u} : content_index[v] = {}
    /\ user_index \in [Universes -> [Users -> Weights \cup {NoWeight}]]
    /\ \A v \in Universes \ {u} : \A i \in Users : user_index[v][i] = NoWeight
    /\ user_index[u][1] # NoWeight

\* A caller runs get_items(universe, quantity=..., hours=..., time_decay=...)
GetItems(c, u, quantity, hours, time_decay) ==
    /\ cpc[c] = "idle"
    /\ \E seen \in SeenChoices(u, hours, quantity, time_decay) :
       \E top_links \in {get_items(u, quantity, hours, time_decay, seen)} :
          call' = [call EXCEPT ![c] =
                      [NoCall EXCEPT
                          !.universe = u, !.quantity = quantity,
                          !.hours = hours, !.time_decay = time_decay,
                          !.seen = seen, !.top_links = top_links]]
    /\ cpc' = [cpc EXCEPT ![c] = "items"]
    /\ UNCHANGED <<svars, top_content, results_cache>>
    /\ UNCHANGED <<qvars, mvars, scvars>>

ItemsInit ==
    /\ StoreInit("u1")
    /\ top_content = {}
    /\ results_cache = <<>>
    /\ cpc = [c \in Callers |-> "idle"]
    /\ call = [c \in Callers |-> NoCall]
    /\ QIdle /\ MIdle /\ SIdle

ItemsNext ==
    \E quantity \in Quantities, hours \in Hours, time_decay \in BOOLEAN :
        GetItems("c1", "u1", quantity, hours, time_decay)

SpecItems == ItemsInit /\ [][ItemsNext]_vars

-----------------------------------------------------------------------------
(* Claims about get_items *)

\* The call of get_items that caller c1 has made.
ItemsCall == call["c1"]
ItemsDone == cpc["c1"] = "items"
ItemsWindow == get_query_dates(ItemsCall.hours)

\* C4: the links get_items returns are in descending order of score and
\* their ranks are 1, 2, ..., N.
C4_SortedContiguousRanks ==
    ItemsDone =>
        LET out == ItemsCall.top_links IN
        /\ \A i \in 1..Len(out) : out[i].rank = i
        /\ \A i, j \in 1..Len(out) : i < j => out[i].score >= out[j].score

\* C4 witness: of two scored candidates the better one has no content
\* document and is dropped; the other one is returned.
C4_Witness ==
    /\ ItemsDone
    /\ LET top == scored_links(ItemsCall.universe, ItemsCall.quantity,
                               ItemsCall.hours, ItemsCall.time_decay,
                               ItemsCall.seen)
       IN /\ Len(top) = 2
          /\ top[1].key \notin content_index[ItemsCall.universe]
          /\ top[1].score > top[2].score
          /\ Len(ItemsCall.top_links) = 1
          /\ ItemsCall.top_links[1].url = top[2].key

\* The tweets of universe u that link to url l and were created at or before
\* time t, counting the old ones.
TweetedBefore(u, l, t) ==
    \/ \E tw \in tweet_index[u] : tw.content_url = l /\ tw.created <= t
    \/ (old[u][l] > 0 /\ LongAgo <= t)

\* C5: no link that get_items returns has a post created at or before the
\* start of the window.
C5_NothingFromBeforeWindow ==
    ItemsDone =>
        \A i \in 1..Len(ItemsCall.top_links) :
            ~TweetedBefore(ItemsCall.universe, ItemsCall.top_links[i].url,
                           ItemsWindow.start)

\* The tweets of universe u inside the window that link to url l.
WindowDocs(u, l, window) ==
    {t \in tweet_index[u] : /\ t.content_url = l
                            /\ t.created >= window.start
                            /\ t.created <= window.end}

\* C6 as claimed: every link that get_items returns has tweets by at least
\* two distinct authors inside the window.
C6_TwoAuthors ==
    ItemsDone =>
        \A i \in 1..Len(ItemsCall.top_links) :
            Cardinality({t.user_id :
                t \in WindowDocs(ItemsCall.universe,
                                 ItemsCall.top_links[i].url, ItemsWindow)})
                >= 2

\* C6 amended: every link that get_items returns has at least two tweets
\* inside the window; they may all come from one author.
C6_TwoPosts ==
    ItemsDone =>
        \A i \in 1..Len(ItemsCall.top_links) :
            Cardinality(WindowDocs(ItemsCall.universe,
                                   ItemsCall.top_links[i].url, ItemsWindow))
                >= MIN_DOC_COUNT

\* C6 witness: a returned link with two tweets inside the window, both by
\* the same author.
C6_Witness ==
    /\ ItemsDone
    /\ \E i \in 1..Len(ItemsCall.top_links) :
          LET docs == WindowDocs(ItemsCall.universe,
                                 ItemsCall.top_links[i].url, ItemsWindow)
          IN /\ Cardinality(docs) = 2
             /\ Cardinality({t.user_id : t \in docs}) = 1

-----------------------------------------------------------------------------
(* score_link on its own: one call with arguments of every shape *)

\* The window lengths a caller may pass, zero among them.
ScoreHours == {0, 1, 2, 4}

\* The creation times of the first tweet of a link: 0, 30, 60, 90 and 120
\* minutes before Now.
FirstTimes == {0, 30, 60, 90, 120}

\* link['tweeters']['buckets']: the distinct user ids of the bucket, none,
\* one or two of them in either order.
TweeterLists == {<<>>, <<1>>, <<2>>, <<1, 2>>, <<2, 1>>}

\* link['first_tweets']['hits']['hits']: no hit or one hit.
FirstTweetLists ==
    {<<>>} \cup {<<[user_id |-> 1, content_url |-> "A", created |-> t]>> :
                    t \in FirstTimes}

\* The user_weights dicts: weights for some of the users.
WeightDicts == UNION {[S -> Weights] : S \in SUBSET Users}

\* Lines 587-595: the exception score_link raises, "" when it raises none.
\* 1 / float(hours) raises for hours = 0; the [0] of line 592 raises when the
\* link has no first tweet.
score_link_raises(link, time_decay, hours) ==
    IF ~time_decay THEN ""
    ELSE IF hours = 0 THEN "ZeroDivisionError"
    ELSE IF link.first_tweets = <<>> THEN "IndexError"
    ELSE ""

SInit ==
    /\ sc_args \in [link : [tweeters : TweeterLists,
                             first_tweets : FirstTweetLists],
                     user_weights : WeightDicts,
                     time_decay : BOOLEAN,
                     hours : ScoreHours]
    /\ sc_result = NoResult
    /\ sc_pc = "call"

\* score_link(link, user_weights, time_decay=..., hours=...)
ScoreLink ==
    /\ sc_pc = "call"
    /\ LET raised == score_link_raises(sc_args.link, sc_args.time_decay,
                                       sc_args.hours)
       IN sc_result' =
              IF raised # "" THEN [NoResult EXCEPT !.raised = raised]
              ELSE LET out == score_link(sc_args.link, sc_args.user_weights,
                                         sc_args.time_decay, sc_args.hours)
                   IN [raised |-> "", score |-> out.score,
                       score_explanation |-> out.score_explanation]
    /\ sc_pc' = "done"
    /\ UNCHANGED sc_args
    /\ UNCHANGED <<qvars, mvars, ivars>>

ScoreInit == SInit /\ QIdle /\ MIdle /\ IIdle

ScoreNext == ScoreLink

SpecScore == ScoreInit /\ [][ScoreNext]_vars

-----------------------------------------------------------------------------
(* Claims about score_link *)

\* C14: whenever score_link returns for a link without tweeters, it returns
\* score 0 and an empty explanation list, with and without time_decay.
C14_ZeroContributors ==
    (sc_pc = "done" /\ sc_args.link.tweeters = <<>>
        /\ sc_result.raised = "") =>
        /\ sc_result.score = 0
        /\ sc_result.score_explanation = <<>>

\* The score before the decay: the sum of the tweeters' influences.
UndecayedSum(link, user_weights) == Influence(link.tweeters, user_weights).score

\* C15: with time_decay and hours < 1 score_link raises nothing and returns
\* the undecayed sum.
C15_NoDecayBelowOneHour ==
    (sc_pc = "done" /\ sc_args.time_decay /\ sc_args.hours < 1) =>
        /\ sc_result.raised = ""
        /\ sc_result.score =
               UndecayedSum(sc_args.link, sc_args.user_weights)

\* The minutes between the first tweet of the link and now.
MinutesElapsed(link) == minutes_since_now(link.first_tweets[1].created)

\* b multiplied e times: 1 for e = 0, whatever b is.
RECURSIVE Pow(_, _)
Pow(b, e) == IF e <= 0 THEN 1 ELSE b * Pow(b, e - 1)

\* C21: with time_decay and hours >= 1 the score that score_link returns is
\* the undecayed sum times (1 - 1/hours) to the power floor(minutes / 60),
\* that is score * hours^k = sum * (hours - 1)^k; with fewer than 60 minutes
\* elapsed it is the undecayed sum. Nothing else enters the score.
C21_DecayPerElapsedHour ==
    (sc_pc = "done" /\ sc_args.time_decay /\ sc_args.hours >= 1
        /\ sc_result.raised = "") =>
        LET sum == UndecayedSum(sc_args.link, sc_args.user_weights)
            minutes == MinutesElapsed(sc_args.link)
            k == minutes \div MinutesPerHour
        IN /\ sc_result.score * Pow(sc_args.hours, k)
                 = sum * Pow(sc_args.hours - 1, k)
           /\ minutes < MinutesPerHour => sc_result.score = sum

\* C21 witness: a link of two tweeters first tweeted two hours ago, scored
\* for a window of four hours: 9/16 of the undecayed sum.
C21_Witness ==
    /\ sc_pc = "done" /\ sc_args.time_decay /\ sc_args.hours = 4
    /\ sc_result.raised = ""
    /\ Len(sc_args.link.tweeters) = 2
    /\ MinutesElapsed(sc_args.link) = 2 * MinutesPerHour
    /\ sc_result.score > 0
    /\ 16 * sc_result.score
          = 9 * UndecayedSum(sc_args.link, sc_args.user_weights)

-----------------------------------------------------------------------------
(* get_top_link, add_to_top_links, add_to_results_cache, get_score_stats *)

MaxCache == 1

AutoIds == {"auto1", "auto2", "auto3"}

\* es.index(index, id=id, body=body): the document stored under id is
\* created, or replaced with its version raised by one.
EsIndex(idx, id, url) ==
    LET prev == {d \in idx : d.id = id}
        version == IF prev = {} THEN 1
                   ELSE (CHOOSE d \in prev : TRUE).version + 1
    IN (idx \ prev) \cup {[id |-> id, url |-> url, version |-> version]}

\* es.index(index, body=body) without an id: the store makes up a new id.
EsIndexAuto(idx, url) ==
    LET free == AutoIds \ {d.id : d \in idx} IN
    IF free = {} THEN idx
    ELSE idx \cup {[id |-> CHOOSE a \in free : TRUE, url |-> url,
                    version |-> 1]}

\* es.exists(index, id=id)
EsExists(idx, id) == \E d \in idx : d.id = id

\* add_to_top_links without the id: every call adds a document.
add_to_top_links_auto(idx, link) == EsIndexAuto(idx, link.url)

\* add_to_top_links, lines 284-290: the link is indexed under its url.
add_to_top_links(idx, link) == EsIndex(idx, link.url, link.url)

\* The body that add_to_results_cache indexes, lines 222-226, together with
\* the universe and the decay flag the results were computed under (the
\* body itself carries neither).
CacheBody(u, hours, time_decay, results) ==
    [hours_since |-> hours,
     scores |-> [i \in 1..Len(results) |-> results[i].score],
     universe |-> u, time_decay |-> time_decay]

RECURSIVE SumSeq(_)
SumSeq(s) == IF s = <<>> THEN 0 ELSE Head(s) + SumSeq(Tail(s))

\* get_score_stats, lines 233-258: extended_stats of the scores of the
\* cached results with the given hours_since. avg is None without values.
get_score_stats(cache, hours) ==
    LET docs == SelectSeq(cache, LAMBDA d : d.hours_since = hours)
        count == SumSeq([i \in 1..Len(docs) |-> Len(docs[i].scores)])
        sum == SumSeq([i \in 1..Len(docs) |-> SumSeq(docs[i].scores)])
        squares ==
            SumSeq([i \in 1..Len(docs) |->
                       SumSeq([j \in 1..Len(docs[i].scores) |->
                                  docs[i].scores[j] * docs[i].scores[j]])])
    IN [avg_defined |-> count > 0, count |-> count, sum |-> sum,
        sum_of_squares |-> squares]

\* Lines 272 and 278: score >= avg + 2 * std_deviation, with avg = sum/count
\* and std_deviation = sqrt(sum_of_squares/count - avg^2), in integers.
AboveCutoff(score, stats) ==
    LET d == stats.count * score - stats.sum
        v == stats.count * stats.sum_of_squares - stats.sum * stats.sum
    IN d >= 0 /\ d * d >= 4 * v

\* The ledger test of line 278 left out.
link_is_never_top(idx, link) == FALSE

\* Lines 273-276: link_is_already_top.
link_is_already_top(idx, link) == EsExists(idx, link.url)

\* Lines 277-281: the first link at or above the cutoff that is not a top
\* link yet, None when there is no such link.
RECURSIVE first_top_link(_, _, _)
first_top_link(links, stats, idx) ==
    IF links = <<>> THEN NoLink
    ELSE IF AboveCutoff(Head(links).score, stats)
            /\ ~link_is_already_top(idx, Head(links))
         THEN Head(links)
         ELSE first_top_link(Tail(links), stats, idx)

\* get_top_link, lines 261-281, given what get_items and get_score_stats
\* returned.
get_top_link(top_links, stats, idx) ==
    IF ~stats.avg_defined THEN NoLink
    ELSE first_top_link(top_links, stats, idx)

\* The tweets of the breakout scenarios: link A shared by both users, link B
\* shared twice by user 1.
TopTweets ==
    {[user_id |-> 1, content_url |-> "A", created |-> 90],
     [user_id |-> 2, content_url |-> "A", created |-> 90],
     [user_id |-> 1, content_url |-> "B", created |-> 60],
     [user_id |-> 1, content_url |-> "B", created |-> 90]}

\* The universe whose callers SpecTop follows.
TopUniverses == {"u1"}

TopInit ==
    /\ \E S \in SUBSET TopTweets :
          tweet_index = [u \in Universes |->
                            IF u \in TopUniverses THEN S ELSE {}]
    /\ old = [u \in Universes |-> [l \in Urls |-> 0]]
    /\ content_index = [u \in Universes |-> {}]
    /\ user_index = [u \in Universes |-> [i \in Users |->
                         IF u \notin TopUniverses THEN NoWeight
                         ELSE IF i = 1 THEN 1 ELSE 10]]
    /\ top_content = {}
    /\ results_cache = <<>>
    /\ cpc = [c \in Callers |-> "idle"]
    /\ call = [c \in Callers |-> NoCall]
    /\ QIdle /\ MIdle /\ SIdle

\* save_content(universe, content), lines 306-311: the content document of
\* a url is extracted and indexed under the url.
save_content(u, l) ==
    /\ l \notin content_index[u]
    /\ content_index' = [content_index EXCEPT ![u] = @ \cup {l}]
    /\ UNCHANGED <<tweet_index, old, user_index, top_content, results_cache,
                   cpc, call>>
    /\ UNCHANGED <<qvars, mvars, scvars>>

\* A periodic job runs get_items and caches what it returned:
\* add_to_results_cache(universe, hours, results).
add_to_results_cache(u, hours, quantity, time_decay) ==
    /\ Len(results_cache) < MaxCache
    /\ \E seen \in SeenChoices(u, hours, quantity, time_decay) :
       \E results \in {get_items(u, quantity, hours, time_decay, seen)} :
          results_cache' =
              Append(results_cache, CacheBody(u, hours, time_decay, results))
    /\ UNCHANGED <<svars, top_content, cpc, call>>
    /\ UNCHANGED <<qvars, mvars, scvars>>

\* A caller runs get_top_link(universe, hours=..., quantity=...).
GetTopLink(c, u, hours, quantity) ==
    /\ cpc[c] = "idle"
    /\ \E seen \in SeenChoices(u, hours, quantity, TRUE) :
       \E top_links \in {get_items(u, quantity, hours, TRUE, seen)} :
       \E stats \in {get_score_stats(results_cache, hours)} :
          call' = [call EXCEPT ![c] =
                      [universe |-> u, quantity |-> quantity,
                       hours |-> hours, time_decay |-> TRUE,
                       seen |-> seen, top_links |-> top_links,
                       stats |-> stats,
                       ledger |-> {d.id : d \in top_content},
                       link |-> get_top_link(top_links, stats,
                                             top_content)]]
    /\ cpc' = [cpc EXCEPT ![c] = "top"]
    /\ UNCHANGED <<svars, top_content, results_cache>>
    /\ UNCHANGED <<qvars, mvars, scvars>>

\* The caller was handed a link and promotes it:
\* add_to_top_links(universe, link).
AddToTopLinks(c) ==
    /\ cpc[c] = "top"
    /\ call[c].link # NoLink
    /\ top_content' = add_to_top_links(top_content, call[c].link)
    /\ cpc' = [cpc EXCEPT ![c] = "idle"]
    /\ call' = [call EXCEPT ![c] = NoCall]
    /\ UNCHANGED <<svars, results_cache>>
    /\ UNCHANGED <<qvars, mvars, scvars>>

\* The caller was handed None and goes back to sleep.
NoTopLink(c) ==
    /\ cpc[c] = "top"
    /\ call[c].link = NoLink
    /\ cpc' = [cpc EXCEPT ![c] = "idle"]
    /\ call' = [call EXCEPT ![c] = NoCall]
    /\ UNCHANGED <<svars, top_content, results_cache>>
    /\ UNCHANGED <<qvars, mvars, scvars>>

TopNext ==
    \/ \E u \in TopUniverses, l \in Urls : save_content(u, l)
    \/ \E u \in TopUniverses, hours \in Hours, quantity \in Quantities,
          time_decay \in BOOLEAN :
          add_to_results_cache(u, hours, quantity, time_decay)
    \/ \E c \in Callers, u \in TopUniverses, hours \in Hours,
          quantity \in Quantities : GetTopLink(c, u, hours, quantity)
    \/ \E c \in Callers : AddToTopLinks(c)
    \/ \E c \in Callers : NoTopLink(c)

SpecTop == TopInit /\ [][TopNext]_vars

-----------------------------------------------------------------------------
(* Claims about get_top_link and add_to_top_links *)

\* Candidate i of a get_top_link call qualifies: its score is at or above
\* the cutoff and its url was not in the ledger.
Qualifies(r, i) ==
    /\ AboveCutoff(r.top_links[i].score, r.stats)
    /\ r.top_links[i].url \notin r.ledger

C7_WitnessNone ==
    \E c \in Callers :
        /\ cpc[c] = "top"
        /\ call[c].stats.avg_defined
        /\ \E i \in 1..Len(call[c].top_links) :
              /\ AboveCutoff(call[c].top_links[i].score, call[c].stats)
              /\ call[c].top_links[i].url \in call[c].ledger
        /\ call[c].link = NoLink

\* C8: the ledger holds at most one entry for a content identifier, stored
\* under that identifier, however often and in whatever order callers
\* promote it.
C8_OneLedgerEntry ==
    /\ \A l \in Urls : Cardinality({d \in top_content : d.url = l}) <= 1
    /\ \A d \in top_content : d.id = d.url

\* C8 witness: a link was promoted twice and the ledger holds one entry for
\* it.
C8_Witness ==
    \E d \in top_content :
        /\ d.version = 2
        /\ Cardinality({e \in top_content : e.url = d.url}) = 1

\* C9: a content identifier is handed to at most one caller and inserted
\* into the ledger at most once.
C9_SurfacedOnce ==
    /\ \A c1, c2 \in Callers :
          (c1 # c2 /\ cpc[c1] = "top" /\ cpc[c2] = "top"
             /\ call[c1].link # NoLink)
          => call[c1].link.url # call[c2].link.url
    /\ \A d \in top_content : d.version <= 1

\* The cache documents that were produced under one (universe, window,
\* decay flag) tuple.
SameTupleCache(cache, u, hours, time_decay) ==
    SelectSeq(cache, LAMBDA d : /\ d.universe = u
                                /\ d.hours_since = hours
                                /\ d.time_decay = time_decay)

\* C16: the statistics a get_top_link call compares its scores against are
\* those of the cache documents produced under the call's own universe,
\* window and decay flag; no other cached score enters them.
C16_BaselineOfSameTuple ==
    [][\A c \in Callers :
          (cpc[c] = "idle" /\ cpc'[c] = "top") =>
              call'[c].stats =
                  get_score_stats(
                      SameTupleCache(results_cache, call'[c].universe,
                                     call'[c].hours, call'[c].time_decay),
                      call'[c].hours)]_vars

-----------------------------------------------------------------------------
(* Two universes on one store *)

\* Both universes hold the same tweets, content and users.
SharedInit ==
    /\ tweet_index = [u \in Universes |-> TopTweets]
    /\ old = [u \in Universes |-> [l \in Urls |-> 0]]
    /\ content_index = [u \in Universes |-> Urls]
    /\ user_index = [u \in Universes |-> [i \in Users |->
                         IF i = 1 THEN 1 ELSE 10]]
    /\ top_content = {}
    /\ results_cache = <<>>
    /\ cpc = [c \in Callers |-> "idle"]
    /\ call = [c \in Callers |-> NoCall]
    /\ QIdle /\ MIdle /\ SIdle

SharedNext ==
    \/ \E u \in Universes, hours \in Hours, quantity \in Quantities,
          time_decay \in BOOLEAN :
          add_to_results_cache(u, hours, quantity, time_decay)
    \/ \E c \in Callers, u \in Universes, hours \in Hours,
          quantity \in Quantities : GetTopLink(c, u, hours, quantity)
    \/ \E c \in Callers : AddToTopLinks(c)
    \/ \E c \in Callers : NoTopLink(c)

SpecShared == SharedInit /\ [][SharedNext]_vars

\* What get_top_link(u, hours=..., quantity=...) can return for a given
\* results cache and ledger.
TopLinkAnswers(u, hours, quantity, cache, ledger) ==
    {get_top_link(get_items(u, quantity, hours, TRUE, seen),
                  get_score_stats(cache, hours), ledger) :
        seen \in SeenChoices(u, hours, quantity, TRUE)}

\* A step of an operation made in universe u: caching results, asking for
\* the top link, promoting a link.
OperationIn(u) ==
    \/ \E hours \in Hours, quantity \in Quantities, time_decay \in BOOLEAN :
          add_to_results_cache(u, hours, quantity, time_decay)
    \/ \E c \in Callers, hours \in Hours, quantity \in Quantities :
          GetTopLink(c, u, hours, quantity)
    \/ \E c \in Callers : call[c].universe = u /\ AddToTopLinks(c)

\* C17: no operation made in universe u1 changes what get_top_link returns
\* in universe u2.
C17_UniverseIsolation ==
    [][OperationIn("u1") =>
          \A hours \in Hours, quantity \in Quantities :
              TopLinkAnswers("u2", hours, quantity,
                             results_cache', top_content') =
                  TopLinkAnswers("u2", hours, quantity,
                                 results_cache, top_content)]_vars

====
